---- MODULE Spec2Model ----
(***************************************************************************)
(* Model of core/dbt/contracts/graph/model_config.py: the per-field merge, *)
(* show and compare policies, the merge of two field values, the           *)
(* extraction of a class's fields from an incoming document, the content   *)
(* comparison of two documents, the map-like interface of BaseConfig, its  *)
(* serialisation and layered update, and the validation of the snapshot    *)
(* union.                                                                  *)
(***************************************************************************)
EXTENDS Naturals, Integers, Sequences, FiniteSets, TLC

VARIABLES
    pc,              \* "ready" before the call under study, "done" after it
    merge_behavior,  \* _merge_field_value: the field's MergeBehavior
    self_value,      \* _merge_field_value: the object passed as self_value
    other_value,     \* _merge_field_value: the object passed as other_value
    merge_in,        \* the two objects as they were when the call was made
    merge_res,       \* what the call returned or raised
    src,             \* _extract_dict: the src dict (the object, as it is now)
    data,            \* _extract_dict / update_from: the data dict (as it is now)
    extract_in,      \* src and data as they were when the call was made
    extract_res,     \* what _extract_dict returned or raised
    unrendered,      \* same_contents: first document
    other,           \* same_contents: second document
    same_res,        \* what same_contents returned
    fields,          \* BaseConfig instance: declared field name -> value
    attrs,           \* instance attributes set over non-field attributes
    extra,           \* BaseConfig instance: the _extra dict
    op,              \* the last map-like / to_dict call and its outcome
    upd,             \* update_from: its arguments and its outcome
    vdoc,            \* SnapshotWrapper.validate: the candidate document
    vres             \* SnapshotWrapper.validate: schema used, errors, raised error

vars == <<pc, merge_behavior, self_value, other_value, merge_in, merge_res,
          src, data, extract_in, extract_res, unrendered, other, same_res,
          fields, attrs, extra, op, upd, vdoc, vres>>

mergeVars   == <<merge_behavior, self_value, other_value, merge_in, merge_res>>
extractVars == <<src, data, extract_in, extract_res>>
compareVars == <<unrendered, other, same_res>>
recordVars  == <<fields, attrs, extra, op>>
validateVars == <<vdoc, vres>>

(***************************************************************************)
(* Values.  A Python value is a record with the same four components:      *)
(*   t = "none" | "bool" | "str" | "map" | "list"                          *)
(*   a   the atom of a bool or str                                         *)
(*   m   the items of a dict, a set of <<key, atom>> pairs                 *)
(*   l   the elements of a list, a sequence of non-list values             *)
(***************************************************************************)
None == [t |-> "none", a |-> "", m |-> {}, l |-> <<>>]

Bool(b) == [t |-> "bool", a |-> b, m |-> {}, l |-> <<>>]

Str(s) == [t |-> "str", a |-> s, m |-> {}, l |-> <<>>]

Map(items) == [t |-> "map", a |-> "", m |-> items, l |-> <<>>]

List(elems) == [t |-> "list", a |-> "", m |-> {}, l |-> elems]

\* isinstance(value, list) / isinstance(value, dict)
IsList(v) == v.t = "list"

IsDict(v) == v.t = "map"

MapKeysOf(items) == {p[1] : p \in items}

\* dict.update on the items of two dicts: the second one's entries win
DictUpdate(items, new) == {p \in items : p[1] \notin MapKeysOf(new)} \cup new

(***************************************************************************)
(* Bounds of the enumerated inputs.                                        *)
(***************************************************************************)
MaxLen == 2

Atoms == {"a", "b"}

MapKeys == {"x", "y"}

\* every dict over MapKeys with atoms as values
Maps == {Map(its) : its \in {s \in SUBSET (MapKeys \X Atoms) :
                                \A p \in s, q \in s : p[1] = q[1] => p = q}}

ListElems == {Str("a"), Str("b"), Map({<<"x", "a">>})}

SeqsUpTo(S, n) == UNION {[1..k -> S] : k \in 0..n}

Lists == {List(s) : s \in SeqsUpTo(ListElems, MaxLen)}

Scalars == {None, Str("a"), Str("b")} \cup Maps

Values == Scalars \cup Lists

(***************************************************************************)
(* Field policy tags (MergeBehavior, ShowBehavior, CompareBehavior).       *)
(***************************************************************************)
MergeBehavior_Append == 1

MergeBehavior_Update == 2

MergeBehavior_Clobber == 3

MergeBehaviors == {MergeBehavior_Append, MergeBehavior_Update, MergeBehavior_Clobber}

NoErr == "none"

(***************************************************************************)
(* _listify and _merge_field_value.  A call returns, besides its result,   *)
(* the state of the argument objects after it: Python passes references,   *)
(* and a merge that did not copy would change its arguments.               *)
(***************************************************************************)
\* variant of _listify that drops a non-list value instead of wrapping it
_listify_nowrap(value) == IF IsList(value) THEN value ELSE List(<<>>)

_listify(value) == IF IsList(value) THEN List(value.l) ELSE List(<<value>>)

MergeOut(err, ret, sv, ov) ==
    [err |-> err, ret |-> ret, self_value |-> sv, other_value |-> ov]

\* variant of _merge_field_value whose Update merge updates self_value in place
_merge_nocopy(mb, sv, ov) ==
    IF mb = MergeBehavior_Clobber THEN MergeOut(NoErr, ov, sv, ov)
    ELSE IF mb = MergeBehavior_Append
    THEN MergeOut(NoErr, List(_listify(sv).l \o _listify(ov).l), sv, ov)
    ELSE IF ~IsDict(sv) \/ ~IsDict(ov)
         THEN MergeOut("InternalException", None, sv, ov)
         \* value = self_value; value.update(other_value)
         ELSE MergeOut(NoErr, Map(DictUpdate(sv.m, ov.m)),
                       Map(DictUpdate(sv.m, ov.m)), ov)

\* variant of _merge_field_value whose Update merge lets the source entries win
_merge_self_wins(mb, sv, ov) ==
    IF mb = MergeBehavior_Clobber THEN MergeOut(NoErr, ov, sv, ov)
    ELSE IF mb = MergeBehavior_Append
    THEN MergeOut(NoErr, List(_listify(sv).l \o _listify(ov).l), sv, ov)
    ELSE IF ~IsDict(sv) \/ ~IsDict(ov)
         THEN MergeOut("InternalException", None, sv, ov)
         ELSE MergeOut(NoErr, Map(DictUpdate(ov.m, sv.m)), sv, ov)

_merge_field_value(mb, sv, ov) ==
    IF mb = MergeBehavior_Clobber THEN MergeOut(NoErr, ov, sv, ov)
    ELSE IF mb = MergeBehavior_Append
    THEN MergeOut(NoErr, List(_listify(sv).l \o _listify(ov).l), sv, ov)
    ELSE IF mb = MergeBehavior_Update
    THEN IF ~IsDict(sv) THEN MergeOut("InternalException", None, sv, ov)
         ELSE IF ~IsDict(ov) THEN MergeOut("InternalException", None, sv, ov)
         ELSE MergeOut(NoErr, Map(DictUpdate(sv.m, ov.m)), sv, ov)
    ELSE MergeOut("InternalException", None, sv, ov)

ShowBehavior_Show == 1

ShowBehavior_Hide == 2

CompareBehavior_Include == 1

CompareBehavior_Exclude == 2

(***************************************************************************)
(* Documents (Dict[str, Any]) are functions from a finite set of keys.     *)
(***************************************************************************)
EmptyDoc == [k \in {} |-> None]

DocRemove(d, key) == [k \in DOMAIN d \ {key} |-> d[k]]

DocSet(d, key, value) ==
    [k \in DOMAIN d \cup {key} |-> IF k = key THEN value ELSE d[k]]

\* d.update(e)
DocUpdate(d, e) ==
    [k \in DOMAIN d \cup DOMAIN e |-> IF k \in DOMAIN e THEN e[k] ELSE d[k]]

(***************************************************************************)
(* The declared fields of a config class, in declaration order, as         *)
(* _get_fields yields them: the attribute name, the serialised (target)    *)
(* name, the three policies read from the field's metadata (the default    *)
(* where the metadata has none) and the field's default value.             *)
(***************************************************************************)
Fld(name, target, merge, show, compare, default) ==
    [name |-> name, target |-> target, merge |-> merge, show |-> show,
     compare |-> compare, default |-> default]

NodeConfig ==
    << Fld("enabled", "enabled", MergeBehavior_Clobber, ShowBehavior_Show,
           CompareBehavior_Include, Bool("True")),
       Fld("materialized", "materialized", MergeBehavior_Clobber, ShowBehavior_Show,
           CompareBehavior_Include, Str("view")),
       Fld("persist_docs", "persist_docs", MergeBehavior_Clobber, ShowBehavior_Show,
           CompareBehavior_Include, Map({})),
       Fld("post_hook", "post-hook", MergeBehavior_Append, ShowBehavior_Show,
           CompareBehavior_Include, List(<<>>)),
       Fld("pre_hook", "pre-hook", MergeBehavior_Append, ShowBehavior_Show,
           CompareBehavior_Include, List(<<>>)),
       Fld("vars", "vars", MergeBehavior_Update, ShowBehavior_Show,
           CompareBehavior_Exclude, Map({})),
       Fld("quoting", "quoting", MergeBehavior_Update, ShowBehavior_Show,
           CompareBehavior_Include, Map({})),
       Fld("column_types", "column_types", MergeBehavior_Update, ShowBehavior_Show,
           CompareBehavior_Include, Map({})),
       Fld("alias", "alias", MergeBehavior_Clobber, ShowBehavior_Show,
           CompareBehavior_Exclude, None),
       Fld("schema", "schema", MergeBehavior_Clobber, ShowBehavior_Show,
           CompareBehavior_Exclude, None),
       Fld("database", "database", MergeBehavior_Clobber, ShowBehavior_Show,
           CompareBehavior_Exclude, None),
       Fld("tags", "tags", MergeBehavior_Append, ShowBehavior_Hide,
           CompareBehavior_Exclude, List(<<>>)),
       Fld("full_refresh", "full_refresh", MergeBehavior_Clobber, ShowBehavior_Show,
           CompareBehavior_Include, None) >>

\* the class get_config_class_by_name(adapter_type) resolves to: a config
\* class of its own, here with one field of each merge behaviour
AdapterConfig ==
    << Fld("labels", "labels", MergeBehavior_Update, ShowBehavior_Show,
           CompareBehavior_Include, None),
       Fld("cluster_by", "cluster_by", MergeBehavior_Append, ShowBehavior_Show,
           CompareBehavior_Include, None),
       Fld("unlogged", "unlogged", MergeBehavior_Clobber, ShowBehavior_Show,
           CompareBehavior_Include, None) >>

Targets(cls) == {cls[i].target : i \in 1..Len(cls)}

Names(cls) == {cls[i].name : i \in 1..Len(cls)}

FieldOf(cls, target) == CHOOSE f \in {cls[i] : i \in 1..Len(cls)} : f.target = target

(***************************************************************************)
(* _extract_dict(src, data) of class cls.  The loop goes through the       *)
(* class's fields in order; a merge that raises ends the call with the     *)
(* fields so far already popped from data.  The call returns the state of  *)
(* both dicts after it besides its result.                                 *)
(***************************************************************************)
ExtractOut(err, result, s, d) == [err |-> err, result |-> result, src |-> s, data |-> d]

RECURSIVE ExtractLoop(_, _, _, _, _)
ExtractLoop(cls, i, s, d, result) ==
    IF i > Len(cls) THEN ExtractOut(NoErr, result, s, d)
    ELSE LET target_field == cls[i].target IN
         IF target_field \notin DOMAIN d
         THEN ExtractLoop(cls, i + 1, s, d, result)
         ELSE LET data_attr == d[target_field]
                  popped == DocRemove(d, target_field)
              IN IF target_field \notin DOMAIN s
                 THEN ExtractLoop(cls, i + 1, s, popped,
                                  DocSet(result, target_field, data_attr))
                 ELSE LET r == _merge_field_value(cls[i].merge, s[target_field],
                                                  data_attr)
                          s2 == [s EXCEPT ![target_field] = r.self_value]
                      IN IF r.err # NoErr
                         THEN ExtractOut(r.err, EmptyDoc, s2, popped)
                         ELSE ExtractLoop(cls, i + 1, s2, popped,
                                          DocSet(result, target_field, r.ret))

\* variant of _extract_dict that coerces every Append field of the result to
\* a list, as if the merge behaviour applied to a key src lacks
_extract_dict_coerce(cls, s, d) ==
    LET r == ExtractLoop(cls, 1, s, d, EmptyDoc) IN
      [r EXCEPT !.result =
          [k \in DOMAIN r.result |->
              IF FieldOf(cls, k).merge = MergeBehavior_Append
              THEN _listify(r.result[k]) ELSE r.result[k]]]

_extract_dict(cls, s, d) == ExtractLoop(cls, 1, s, d, EmptyDoc)

(***************************************************************************)
(* compare_key and same_contents.                                          *)
(***************************************************************************)
compare_key(u, o, key) ==
    IF key \notin DOMAIN u /\ key \notin DOMAIN o THEN TRUE
    ELSE IF key \notin DOMAIN u /\ key \in DOMAIN o THEN FALSE
    ELSE IF key \in DOMAIN u /\ key \notin DOMAIN o THEN FALSE
    ELSE u[key] = o[key]

\* variant of should_include that ignores the compare policy
should_include_all(fld) == TRUE

\* CompareBehavior.should_include
should_include(fld) == fld.compare = CompareBehavior_Include

\* the first loop: the class's fields in order, False at the first
\* included field the documents disagree on
RECURSIVE SameFields(_, _, _, _)
SameFields(cls, i, u, o) ==
    IF i > Len(cls) THEN TRUE
    ELSE IF should_include(cls[i]) /\ ~compare_key(u, o, cls[i].target) THEN FALSE
    ELSE SameFields(cls, i + 1, u, o)

\* the second loop: the keys of chain(unrendered, other) not seen yet
RECURSIVE SameRest(_, _, _)
SameRest(keys, u, o) ==
    IF keys = {} THEN TRUE
    ELSE LET key == CHOOSE k \in keys : TRUE IN
         IF ~compare_key(u, o, key) THEN FALSE
         ELSE SameRest(keys \ {key}, u, o)

same_contents(cls, u, o) ==
    IF ~SameFields(cls, 1, u, o) THEN FALSE
    ELSE SameRest((DOMAIN u \cup DOMAIN o) \ Targets(cls), u, o)

(***************************************************************************)
(* The BaseConfig instance: its declared fields, the instance attributes   *)
(* set over attributes that are no declared field, and the _extra dict.    *)
(***************************************************************************)
\* the attributes a config instance has besides its declared fields: the
\* methods this file defines on BaseConfig and NodeConfig
ClassAttrs ==
    {"compare_key", "same_contents", "_extract_dict", "_content_iterator",
     "to_dict", "update_from", "finalize_and_validate", "replace",
     "from_dict", "field_mapping"}

\* hasattr(self, key)
hasattr(cls, key) == key \in Names(cls) \cup ClassAttrs

SetOut(f, a, e) == [fields |-> f, attrs |-> a, extra |-> e]

\* __setitem__: setattr on an attribute the instance has, _extra otherwise
__setitem__(cls, f, a, e, key, value) ==
    IF hasattr(cls, key)
    THEN IF key \in Names(cls)
         THEN SetOut([f EXCEPT ![key] = value], a, e)
         ELSE SetOut(f, DocSet(a, key, value), e)
    ELSE SetOut(f, a, DocSet(e, key, value))

DelOut(err, e) == [err |-> err, extra |-> e]

\* __delitem__
__delitem__(cls, e, key) ==
    IF hasattr(cls, key) THEN DelOut("CompilationException", e)
    ELSE IF key \notin DOMAIN e THEN DelOut("KeyError", e)
    ELSE DelOut(NoErr, DocRemove(e, key))

\* super().to_dict(omit_none): every declared field under its target name,
\* the None ones left out under omit_none, then the _extra entries
RECURSIVE FieldsToDict(_, _, _, _, _)
FieldsToDict(cls, i, f, omit_none, result) ==
    IF i > Len(cls) THEN result
    ELSE IF omit_none /\ f[cls[i].name] = None
    THEN FieldsToDict(cls, i + 1, f, omit_none, result)
    ELSE FieldsToDict(cls, i + 1, f, omit_none,
                      DocSet(result, cls[i].target, f[cls[i].name]))

super_to_dict(cls, f, e, omit_none) ==
    DocUpdate(FieldsToDict(cls, 1, f, omit_none, EmptyDoc), e)

\* variant of should_show that hides every field
should_show_never(fld) == FALSE

\* ShowBehavior.should_show
should_show(fld) == fld.show = ShowBehavior_Show

\* the loop of to_dict that deletes the hidden fields
RECURSIVE OmitHidden(_, _, _)
OmitHidden(cls, i, result) ==
    IF i > Len(cls) THEN result
    ELSE LET target_field == cls[i].target IN
         IF target_field \notin DOMAIN result THEN OmitHidden(cls, i + 1, result)
         ELSE IF result[target_field] # None THEN OmitHidden(cls, i + 1, result)
         ELSE IF ~should_show(cls[i])
         THEN OmitHidden(cls, i + 1, DocRemove(result, target_field))
         ELSE OmitHidden(cls, i + 1, result)

to_dict(cls, f, e, omit_none, omit_hidden) ==
    LET result == super_to_dict(cls, f, e, omit_none) IN
    IF omit_hidden /\ ~omit_none THEN OmitHidden(cls, 1, result) ELSE result

UpdOut(err, ser, dct, d) == [err |-> err, ser |-> ser, dct |-> dct, data |-> d]

\* variant of update_from without the adapter class's extraction
update_from_no_adapter(cls, f, e, d, adapter_config_cls) ==
    LET dct0 == to_dict(cls, f, e, FALSE, FALSE)
        r1 == _extract_dict(cls, dct0, d)
        dct1 == DocUpdate(r1.src, r1.result)
    IN IF r1.err # NoErr THEN UpdOut(r1.err, dct0, EmptyDoc, r1.data)
       ELSE UpdOut(NoErr, dct0, DocUpdate(dct1, r1.data), r1.data)

\* update_from, up to the document it hands to from_dict
update_from(cls, f, e, d, adapter_config_cls) ==
    LET dct0 == to_dict(cls, f, e, FALSE, FALSE)
        r1 == _extract_dict(cls, dct0, d)
        dct1 == DocUpdate(r1.src, r1.result)
        r2 == _extract_dict(adapter_config_cls, dct1, r1.data)
        dct2 == DocUpdate(r2.src, r2.result)
    IN IF r1.err # NoErr THEN UpdOut(r1.err, dct0, EmptyDoc, r1.data)
       ELSE IF r2.err # NoErr THEN UpdOut(r2.err, dct0, EmptyDoc, r2.data)
       ELSE UpdOut(NoErr, dct0, DocUpdate(dct2, r2.data), r2.data)

(***************************************************************************)
(* The snapshot union and its validation.  A validation error carries the  *)
(* path to the offending element (relative to its parent error), the       *)
(* keyword that failed, the field its message is about and, for a failed   *)
(* oneOf, the errors of the alternatives as its context.                   *)
(***************************************************************************)
Err(path, validator, about, context) ==
    [path |-> path, validator |-> validator, about |-> about, context |-> context]

NoError == Err(<<>>, "", "", <<>>)

\* the fields without a default, in declaration order
Required(schema) ==
    IF schema = "timestamp"
    THEN <<"unique_key", "target_schema", "strategy", "updated_at">>
    ELSE IF schema = "check"
    THEN <<"unique_key", "target_schema", "strategy", "check_cols">>
    ELSE <<"unique_key", "target_schema", "strategy">>

ErrIf(cond, e) == IF cond THEN <<e>> ELSE <<>>

Has(c, k) == k \in DOMAIN c

\* the strategy property of each variant: restricted to the variant's own
\* value, or (generic) to none of the specializations' values
StrategyErrors(schema, c) ==
    IF ~Has(c, "strategy") THEN <<>>
    ELSE IF schema = "timestamp"
    THEN ErrIf(c["strategy"] # Str("timestamp"),
               Err(<<"strategy">>, "enum", "strategy", <<>>))
    ELSE IF schema = "check"
    THEN ErrIf(c["strategy"] # Str("check"),
               Err(<<"strategy">>, "enum", "strategy", <<>>))
    ELSE ErrIf(c["strategy"] \in {Str("timestamp"), Str("check")},
               Err(<<"strategy">>, "not", "strategy", <<>>))

IsStrList(v) == v.t = "list" /\ \A i \in 1..Len(v.l) : v.l[i].t = "str"

\* check_cols: Union[All, List[str]]
CheckColsErrors(schema, c) ==
    IF schema # "check" \/ ~Has(c, "check_cols") THEN <<>>
    ELSE ErrIf(c["check_cols"] # Str("all") /\ ~IsStrList(c["check_cols"]),
               Err(<<"check_cols">>, "oneOf", "check_cols",
                   << Err(<<>>, "enum", "check_cols", <<>>),
                      Err(<<>>, "type", "check_cols", <<>>) >>))

TypeErrors(c, k, t) ==
    ErrIf(Has(c, k) /\ c[k].t # t, Err(<<k>>, "type", k, <<>>))

\* the errors the validator yields for document c under a variant's
\* schema: the missing required fields, then the fields in declaration order
IterErrors(schema, c) ==
    LET req == Required(schema)
        missing == SelectSeq(req, LAMBDA r : ~Has(c, r))
    IN [i \in 1..Len(missing) |-> Err(<<>>, "required", missing[i], <<>>)]
       \o TypeErrors(c, "enabled", "bool")
       \o TypeErrors(c, "unique_key", "str")
       \o TypeErrors(c, "target_schema", "str")
       \o StrategyErrors(schema, c)
       \o (IF schema = "timestamp" THEN TypeErrors(c, "updated_at", "str") ELSE <<>>)
       \o CheckColsErrors(schema, c)

SnapshotVariants == <<"timestamp", "check", "generic">>

\* the errors under the schema of SnapshotWrapper itself: config is
\* required and must match exactly one of the variants
WrapperErrors(d) ==
    IF ~d.has_config THEN <<Err(<<>>, "required", "config", <<>>)>>
    ELSE LET valid == {i \in 1..3 : IterErrors(SnapshotVariants[i], d.config) = <<>>}
         IN IF Cardinality(valid) = 1 THEN <<>>
            ELSE IF Cardinality(valid) > 1
            THEN <<Err(<<"config">>, "oneOf", "config", <<>>)>>
            ELSE <<Err(<<"config">>, "oneOf", "config",
                       IterErrors("timestamp", d.config)
                       \o IterErrors("check", d.config)
                       \o IterErrors("generic", d.config))>>

InSeq(x, s) == \E i \in 1..Len(s) : s[i] = x

\* variant of _relevance_without_strategy without the strategy exception
_relevance_plain(error) ==
    << 0 - Len(error.path),
       IF error.validator \notin {"anyOf", "oneOf"} THEN 1 ELSE 0 >>

\* _relevance_without_strategy: (length, validator not in {anyOf, oneOf}),
\* the boolean as 0 or 1
_relevance_without_strategy(error) ==
    << IF InSeq("strategy", error.path) /\ error.validator \in {"enum", "not"}
       THEN 1 ELSE 0 - Len(error.path),
       IF error.validator \notin {"anyOf", "oneOf"} THEN 1 ELSE 0 >>

\* the order of Python tuples
TupleLess(a, b) == a[1] < b[1] \/ (a[1] = b[1] /\ a[2] < b[2])

\* max(errors, key=key) and min(errors, key=key): the first of the greatest
\* (least) in iteration order
MaxBy(errors) ==
    LET k(i) == _relevance_without_strategy(errors[i])
        best == CHOOSE i \in 1..Len(errors) :
                   /\ \A j \in 1..Len(errors) : ~TupleLess(k(i), k(j))
                   /\ \A j \in 1..(i - 1) : TupleLess(k(j), k(i))
    IN errors[best]

MinBy(errors) ==
    LET k(i) == _relevance_without_strategy(errors[i])
        best == CHOOSE i \in 1..Len(errors) :
                   /\ \A j \in 1..Len(errors) : ~TupleLess(k(j), k(i))
                   /\ \A j \in 1..(i - 1) : TupleLess(k(i), k(j))
    IN errors[best]

\* best_match's loop: while best.context: best = min(best.context, key=key);
\* the errors chosen on the way, the last one the error reported
RECURSIVE Descend(_)
Descend(chain) ==
    LET best == chain[Len(chain)] IN
    IF best.context = <<>> THEN chain
    ELSE Descend(Append(chain, MinBy(best.context)))

\* jsonschema.exceptions.best_match(errors, key=_relevance_without_strategy)
best_match(errors) ==
    IF errors = <<>> THEN <<>> ELSE Descend(<<MaxBy(errors)>>)

ValOut(schema, errors, chain) ==
    [schema |-> schema, errors |-> errors, chain |-> chain,
     error |-> IF chain = <<>> THEN NoError ELSE chain[Len(chain)]]

\* variant of validate that always validates against the wrapper's schema
validate_wrapper_only(d) ==
    ValOut("wrapper", WrapperErrors(d), best_match(WrapperErrors(d)))

\* SnapshotWrapper.validate
validate(d) ==
    LET config == IF d.has_config THEN d.config ELSE EmptyDoc
        strategy == IF Has(config, "strategy") THEN config["strategy"] ELSE None
    IN IF strategy = Str("check")
       THEN ValOut("check", IterErrors("check", config),
                   best_match(IterErrors("check", config)))
       ELSE IF strategy = Str("timestamp")
       THEN ValOut("timestamp", IterErrors("timestamp", config),
                   best_match(IterErrors("timestamp", config)))
       ELSE ValOut("wrapper", WrapperErrors(d), best_match(WrapperErrors(d)))

Idle == [idle |-> TRUE]

(***************************************************************************)
(* SpecMerge: one call of _merge_field_value on enumerated arguments.      *)
(***************************************************************************)
IdleMerge ==
    /\ merge_behavior = Idle /\ self_value = Idle /\ other_value = Idle
    /\ merge_in = Idle /\ merge_res = Idle

IdleExtract == src = Idle /\ data = Idle /\ extract_in = Idle /\ extract_res = Idle

IdleCompare == unrendered = Idle /\ other = Idle /\ same_res = Idle

IdleRecord == fields = Idle /\ attrs = Idle /\ extra = Idle /\ op = Idle

IdleUpdate == upd = Idle

IdleValidate == vdoc = Idle /\ vres = Idle

InitMerge ==
    /\ pc = "ready"
    /\ merge_behavior \in MergeBehaviors
    /\ self_value \in Values
    /\ other_value \in Values
    /\ merge_in = [self_value |-> self_value, other_value |-> other_value]
    /\ merge_res = Idle
    /\ IdleExtract /\ IdleCompare /\ IdleRecord /\ IdleUpdate /\ IdleValidate

MergeCall ==
    /\ pc = "ready"
    /\ LET r == _merge_field_value(merge_behavior, self_value, other_value) IN
         /\ merge_res' = [err |-> r.err, ret |-> r.ret]
         /\ self_value' = r.self_value
         /\ other_value' = r.other_value
    /\ pc' = "done"
    /\ UNCHANGED <<merge_behavior, merge_in, extractVars, compareVars,
                   recordVars, upd, validateVars>>

NextMerge == MergeCall

SpecMerge == InitMerge /\ [][NextMerge]_vars

\* the claim's listify: a list is itself, anything else a one-element list
AsSeq(v) == IF v.t = "list" THEN v.l ELSE <<v>>

\* C6: after an Append merge the result is listify(S) followed by
\* listify(I), in order and with duplicates, no error is raised and
\* neither argument object has changed.
C6_AppendIsConcat ==
    (pc = "done" /\ merge_behavior = MergeBehavior_Append) =>
        /\ merge_res.err = NoErr
        /\ merge_res.ret.t = "list"
        /\ merge_res.ret.l = AsSeq(merge_in.self_value) \o AsSeq(merge_in.other_value)
        /\ self_value = merge_in.self_value
        /\ other_value = merge_in.other_value

\* an Append merge of a scalar with a two-element list holding a duplicate
C6_Witness ==
    /\ pc = "done" /\ merge_behavior = MergeBehavior_Append
    /\ merge_in.self_value = Str("a")
    /\ merge_in.other_value = List(<<Str("a"), Str("a")>>)
    /\ merge_res.ret = List(<<Str("a"), Str("a"), Str("a")>>)

\* C7: an Update merge of two mappings yields a new mapping over the union
\* of the keys where the incoming value wins and the source value is kept
\* otherwise, the source object unchanged; when either side is not a
\* mapping the merge raises and returns no value.
C7_UpdateMerge ==
    (pc = "done" /\ merge_behavior = MergeBehavior_Update) =>
        LET S == merge_in.self_value
            I == merge_in.other_value
        IN IF S.t = "map" /\ I.t = "map"
           THEN /\ merge_res.err = NoErr
                /\ merge_res.ret.t = "map"
                /\ MapKeysOf(merge_res.ret.m) = MapKeysOf(S.m) \cup MapKeysOf(I.m)
                /\ \A p \in merge_res.ret.m :
                      IF p[1] \in MapKeysOf(I.m) THEN p \in I.m ELSE p \in S.m
                /\ \A p \in merge_res.ret.m, q \in merge_res.ret.m :
                      p[1] = q[1] => p = q
                /\ self_value = S
           ELSE /\ merge_res.err = "InternalException"
                /\ merge_res.ret = None

\* two mappings that disagree on a shared key, the incoming one adding a key
C7_Witness ==
    /\ pc = "done" /\ merge_behavior = MergeBehavior_Update
    /\ merge_in.self_value = Map({<<"x", "a">>})
    /\ merge_in.other_value = Map({<<"x", "b">>, <<"y", "a">>})
    /\ merge_res.ret = Map({<<"x", "b">>, <<"y", "a">>})

(***************************************************************************)
(* SpecExtract: one call of _extract_dict on enumerated documents.         *)
(***************************************************************************)
\* the keys the enumerated documents use: a field of each merge behaviour
\* of each class, and a key no class declares
FieldKeys == {"materialized", "vars", "tags"}

OtherKeys == {"k3"}

DataVals == {Str("a"), List(<<Str("a")>>), Map({<<"x", "a">>})}

SrcVals == {Str("b"), List(<<Str("b")>>), Map({<<"x", "b">>, <<"y", "b">>})}

DocsOver(keys, vals) == UNION {[D -> vals] : D \in SUBSET keys}

InitExtract ==
    /\ pc = "ready"
    /\ src \in {DocUpdate(d, e) : d \in DocsOver(FieldKeys, SrcVals),
                                  e \in DocsOver(OtherKeys, {Str("b")})}
    /\ data \in DocsOver(FieldKeys \cup OtherKeys, DataVals)
    /\ extract_in = [cls |-> NodeConfig, src |-> src, data |-> data]
    /\ extract_res = Idle
    /\ IdleMerge /\ IdleCompare /\ IdleRecord /\ IdleUpdate /\ IdleValidate

ExtractCall ==
    /\ pc = "ready"
    /\ LET r == _extract_dict(extract_in.cls, src, data) IN
         /\ extract_res' = [err |-> r.err, result |-> r.result]
         /\ src' = r.src
         /\ data' = r.data
    /\ pc' = "done"
    /\ UNCHANGED <<extract_in, mergeVars, compareVars, recordVars, upd, validateVars>>

NextExtract == ExtractCall

SpecExtract == InitExtract /\ [][NextExtract]_vars

\* C2: after an _extract_dict that raised nothing, data holds exactly its
\* original keys outside the field set, each with its original value, the
\* result's keys are exactly the field set's keys that data held, and src
\* is as it was.
C2_ExtractFrame ==
    (pc = "done" /\ extract_res.err = NoErr) =>
        LET field_set == Targets(extract_in.cls)
            data0 == extract_in.data
        IN /\ DOMAIN data = DOMAIN data0 \ field_set
           /\ DOMAIN extract_res.result = field_set \cap DOMAIN data0
           /\ \A k \in DOMAIN data : data[k] = data0[k]
           /\ src = extract_in.src

\* an extraction that merged an Update field and an Append field present
\* on both sides and left a key outside the field set in data
C2_Witness ==
    /\ pc = "done" /\ extract_res.err = NoErr
    /\ {"vars", "tags", "k3"} \subseteq DOMAIN extract_in.data
    /\ {"vars", "tags"} \subseteq DOMAIN extract_in.src
    /\ extract_res.result["vars"] # extract_in.src["vars"]
    /\ DOMAIN data = {"k3"}

\* the fields whose merge can raise: an Update field present in both
\* documents with a value on either side that is not a dict
UpdateMisfits(cls, s, d) ==
    {k \in Targets(cls) \cap DOMAIN s \cap DOMAIN d :
        /\ FieldOf(cls, k).merge = MergeBehavior_Update
        /\ (~IsDict(s[k]) \/ ~IsDict(d[k]))}

\* C11: after _extract_dict, a field of the field set that data held and src
\* did not is in the result with data's value unchanged, whatever the
\* field's merge behaviour (an Append field is not made a list, an Update
\* field that is not a dict raises nothing); the merge behaviour applies
\* only to a field both documents held, and only such a field can make the
\* call raise.
C11_AbsentInSrcVerbatim ==
    pc = "done" =>
        LET cls == extract_in.cls
            src0 == extract_in.src
            data0 == extract_in.data
            only_data == (Targets(cls) \cap DOMAIN data0) \ DOMAIN src0
            both == Targets(cls) \cap DOMAIN data0 \cap DOMAIN src0
        IN /\ extract_res.err # NoErr <=> UpdateMisfits(cls, src0, data0) # {}
           /\ extract_res.err = NoErr =>
                 /\ \A k \in only_data : extract_res.result[k] = data0[k]
                 /\ \A k \in both :
                       extract_res.result[k] =
                         _merge_field_value(FieldOf(cls, k).merge,
                                            src0[k], data0[k]).ret

\* an Append field and an Update field that only data held, neither value a
\* list or a dict, beside a Clobber field both documents held
C11_Witness ==
    /\ pc = "done" /\ extract_res.err = NoErr
    /\ {"tags", "vars"} \cap DOMAIN extract_in.src = {}
    /\ "materialized" \in DOMAIN extract_in.src
    /\ {"tags", "vars", "materialized"} \subseteq DOMAIN extract_in.data
    /\ extract_in.data["tags"] = Str("a")
    /\ extract_in.data["vars"] = Str("a")
    /\ extract_res.result["tags"] = Str("a")
    /\ extract_res.result["vars"] = Str("a")

(***************************************************************************)
(* SpecCompare: one call of NodeConfig.same_contents on two documents.     *)
(***************************************************************************)
\* an Include field, two Exclude fields, an Include field, an extra key
CompareKeys == {"materialized", "tags", "vars", "quoting", "k3"}

CompareVals == {Str("a"), Map({<<"x", "a">>})}

InitCompare ==
    /\ pc = "ready"
    /\ unrendered \in DocsOver(CompareKeys, CompareVals)
    /\ other \in DocsOver(CompareKeys, CompareVals)
    /\ same_res = Idle
    /\ IdleMerge /\ IdleExtract /\ IdleRecord /\ IdleUpdate /\ IdleValidate

CompareCall ==
    /\ pc = "ready"
    /\ same_res' = same_contents(NodeConfig, unrendered, other)
    /\ pc' = "done"
    /\ UNCHANGED <<unrendered, other, mergeVars, extractVars, recordVars, upd,
                   validateVars>>

NextCompare == CompareCall

SpecCompare == InitCompare /\ [][NextCompare]_vars

\* the claim's three-way presence logic
Agree(u, o, k) ==
    \/ k \notin DOMAIN u /\ k \notin DOMAIN o
    \/ k \in DOMAIN u /\ k \in DOMAIN o /\ u[k] = o[k]

IncludeTargets(cls) ==
    {cls[i].target : i \in {j \in 1..Len(cls) : cls[j].compare = CompareBehavior_Include}}

ExcludeTargets(cls) == Targets(cls) \ IncludeTargets(cls)

\* C3: same_contents is true exactly when the documents agree on every
\* Include field and on every key that is no field; so documents that
\* differ only in Exclude fields are equivalent, and documents that differ
\* in an Include field or in an extra key are not.
C3_SameContents ==
    pc = "done" =>
        LET keys == DOMAIN unrendered \cup DOMAIN other
            diff == {k \in keys : ~Agree(unrendered, other, k)}
        IN /\ same_res =
                ( /\ \A k \in IncludeTargets(NodeConfig) : Agree(unrendered, other, k)
                  /\ \A k \in keys \ Targets(NodeConfig) : Agree(unrendered, other, k) )
           /\ diff \subseteq ExcludeTargets(NodeConfig) => same_res = TRUE
           /\ diff \ ExcludeTargets(NodeConfig) # {} => same_res = FALSE

\* two documents that differ in the Exclude field tags only, one of them
\* lacking it, and agree on an Include field and an extra key they both hold
C3_Witness ==
    /\ pc = "done" /\ same_res = TRUE
    /\ "tags" \in DOMAIN unrendered /\ "tags" \notin DOMAIN other
    /\ {"materialized", "k3"} \subseteq DOMAIN unrendered \cap DOMAIN other

(***************************************************************************)
(* SpecRecord: a NodeConfig instance under the map-like interface and      *)
(* to_dict.                                                                *)
(***************************************************************************)
\* keys used through the map-like interface: a Hide field, a Show field, a
\* method of the class and a key nothing declares
SetKeys == {"tags", "alias", "replace", "k3"}

SetVals == {None, List(<<>>), Str("a")}

\* the field values of a NodeConfig constructed without arguments
Defaults(cls) == [n \in Names(cls) |->
                    (CHOOSE f \in {cls[i] : i \in 1..Len(cls)} : f.name = n).default]

NoOp == [name |-> "init", key |-> "", value |-> None, err |-> NoErr,
         omit_none |-> FALSE, omit_hidden |-> FALSE, out |-> EmptyDoc]

InitRecord ==
    /\ pc = "run"
    /\ fields \in {[Defaults(NodeConfig) EXCEPT !["tags"] = t] :
                      t \in {List(<<>>), List(<<Str("b")>>)}}
    /\ attrs = EmptyDoc
    /\ extra \in DocsOver({"k3"}, {Str("b")})
    /\ op = NoOp
    /\ IdleUpdate /\ IdleMerge /\ IdleExtract /\ IdleCompare /\ IdleValidate

SetItem(key, value) ==
    /\ LET r == __setitem__(NodeConfig, fields, attrs, extra, key, value) IN
         /\ fields' = r.fields
         /\ attrs' = r.attrs
         /\ extra' = r.extra
    /\ op' = [NoOp EXCEPT !.name = "set", !.key = key, !.value = value]
    /\ UNCHANGED <<pc, upd, mergeVars, extractVars, compareVars, validateVars>>

DelItem(key) ==
    /\ LET r == __delitem__(NodeConfig, extra, key) IN
         /\ extra' = r.extra
         /\ op' = [NoOp EXCEPT !.name = "del", !.key = key, !.err = r.err]
    /\ UNCHANGED <<pc, fields, attrs, upd, mergeVars, extractVars, compareVars,
                   validateVars>>

ToDict(omit_none, omit_hidden) ==
    /\ "to_dict" \notin DOMAIN attrs
    /\ op' = [NoOp EXCEPT !.name = "to_dict", !.omit_none = omit_none,
                          !.omit_hidden = omit_hidden,
                          !.out = to_dict(NodeConfig, fields, extra, omit_none,
                                          omit_hidden)]
    /\ UNCHANGED <<pc, fields, attrs, extra, upd, mergeVars, extractVars,
                   compareVars, validateVars>>

NextRecord ==
    \/ \E key \in SetKeys, value \in SetVals : SetItem(key, value)
    \/ \E key \in SetKeys : DelItem(key)
    \/ \E omit_none \in BOOLEAN, omit_hidden \in BOOLEAN : ToDict(omit_none, omit_hidden)

SpecRecord == InitRecord /\ [][NextRecord]_vars

\* C4: a set never puts a declared field's name into the extra bucket; a
\* set on a declared field's key changes that field only, and a set on any
\* other key changes extra[key] only.
C4_SetChangesOnlyItsBucket ==
    [][op'.name = "set" =>
         /\ DOMAIN extra \cap Names(NodeConfig) = {}
               => DOMAIN extra' \cap Names(NodeConfig) = {}
         /\ IF op'.key \in Names(NodeConfig)
            THEN /\ fields' = [fields EXCEPT ![op'.key] = op'.value]
                 /\ extra' = extra
            ELSE /\ fields' = fields
                 /\ extra' = DocSet(extra, op'.key, op'.value)]_vars

\* C5: a delete of a declared field's key raises the protected-key error and
\* leaves the record as it was; a delete of any other key raises no
\* protected-key error, removes exactly that key from the extra bucket and
\* leaves the declared fields and the other extra keys as they were.
C5_DeleteProtectsDeclaredOnly ==
    [][op'.name = "del" =>
         IF op'.key \in Names(NodeConfig)
         THEN /\ op'.err = "CompilationException"
              /\ fields' = fields /\ extra' = extra
         ELSE /\ op'.err # "CompilationException"
              /\ fields' = fields
              /\ extra' = DocRemove(extra, op'.key)]_vars

Dropped(f) == f.target \notin DOMAIN op.out

FieldSet(cls) == {cls[i] : i \in 1..Len(cls)}

\* C8 as amended: under omit_none = false and omit_hidden = true a declared
\* field is dropped exactly when its Show policy is Hide and its value is
\* None (an empty list or mapping is kept); under any other flags a field
\* is dropped exactly when omit_none holds and its value is None, whatever
\* its Show policy.
C8_HideDropsNoneOnly ==
    op.name = "to_dict" =>
        \A f \in FieldSet(NodeConfig) :
            IF ~op.omit_none /\ op.omit_hidden
            THEN Dropped(f) <=> (f.show = ShowBehavior_Hide /\ fields[f.name] = None)
            ELSE Dropped(f) <=> (op.omit_none /\ fields[f.name] = None)

\* the Hide field tags is None and dropped, the Show field alias is None
\* and kept
C8_Witness ==
    /\ op.name = "to_dict" /\ ~op.omit_none /\ op.omit_hidden
    /\ fields["tags"] = None /\ "tags" \notin DOMAIN op.out
    /\ fields["alias"] = None /\ "alias" \in DOMAIN op.out

IsEmpty(v) == v \in {None, List(<<>>), Map({}), Str("")}

\* C8 as stated: under omit_none = false and omit_hidden = true a declared
\* field is dropped exactly when its Show policy is Hide and its value is
\* empty or null.
C8_HideDropsEmpty ==
    (op.name = "to_dict" /\ ~op.omit_none /\ op.omit_hidden) =>
        \A f \in FieldSet(NodeConfig) :
            Dropped(f) <=> (f.show = ShowBehavior_Hide /\ IsEmpty(fields[f.name]))

(***************************************************************************)
(* SpecUpdate: one call of update_from on a NodeConfig instance, with the  *)
(* adapter's config class AdapterConfig.                                   *)
(***************************************************************************)
\* the instance: its Update field vars and its Append field tags as
\* constructed or as assigned through __setitem__, and an _extra that may
\* hold an adapter field and a key nothing declares
UpdateFields ==
    {[[Defaults(NodeConfig) EXCEPT !["vars"] = v] EXCEPT !["tags"] = t] :
        v \in {Map({}), Map({<<"y", "b">>}), Str("b")},
        t \in {List(<<>>), List(<<Str("b")>>), Str("b")}}

UpdateExtras ==
    {DocUpdate(d, e) : d \in DocsOver({"labels"}, {Map({<<"y", "b">>}), Str("b")}),
                       e \in DocsOver({"k3", "k4"}, {Str("b")})}

\* the incoming documents
DataChoice(k) ==
    IF k = "vars" THEN {Map({<<"x", "a">>}), Str("a")}
    ELSE IF k = "tags" THEN {List(<<Str("a")>>), Str("a")}
    ELSE IF k = "labels" THEN {Map({<<"x", "a">>}), Str("a")}
    ELSE {Str("a")}

DataKeys == {"materialized", "vars", "tags", "labels", "cluster_by", "k3"}

DataDocs == {d \in DocsOver(DataKeys, DataVals) : \A k \in DOMAIN d : d[k] \in DataChoice(k)}

InitUpdate ==
    /\ pc = "ready"
    /\ fields \in UpdateFields
    /\ attrs = EmptyDoc
    /\ extra \in UpdateExtras
    /\ op = NoOp
    /\ data \in DataDocs
    /\ upd = [data_in |-> data, err |-> NoErr, dct |-> EmptyDoc]
    /\ src = Idle /\ extract_in = Idle /\ extract_res = Idle
    /\ IdleMerge /\ IdleCompare /\ IdleValidate

UpdateFromCall ==
    /\ pc = "ready"
    /\ LET r == update_from(NodeConfig, fields, extra, data, AdapterConfig) IN
         /\ upd' = [upd EXCEPT !.err = r.err, !.dct = r.dct]
         /\ data' = r.data
    /\ op' = [NoOp EXCEPT !.name = "update_from"]
    /\ pc' = "done"
    /\ UNCHANGED <<fields, attrs, extra, src, extract_in, extract_res, mergeVars,
                   compareVars, validateVars>>

NextUpdate == UpdateFromCall

SpecUpdate == InitUpdate /\ [][NextUpdate]_vars

MergePolicy(cls, k) == FieldOf(cls, k).merge

\* C1: the document update_from hands to from_dict holds, for every key of
\* the incoming document, the merge of self's serialised value with the
\* incoming value under the field's own policy (a field of self's class),
\* the merge under the adapter class's policy or, with the key absent from
\* the serialised self, the incoming value (a field of the adapter class
\* only), or the incoming value verbatim (any other key); every other key
\* keeps the value of self's full serialisation.
C1_LayeredUpdate ==
    (pc = "done" /\ upd.err = NoErr) =>
        LET ser == to_dict(NodeConfig, fields, extra, FALSE, FALSE)
            d0 == upd.data_in
            own == Targets(NodeConfig)
            adapter == Targets(AdapterConfig) \ own
        IN /\ DOMAIN upd.dct = DOMAIN ser \cup DOMAIN d0
           /\ own \subseteq DOMAIN ser
           /\ \A k \in DOMAIN upd.dct :
                upd.dct[k] =
                  IF k \notin DOMAIN d0 THEN ser[k]
                  ELSE IF k \in own
                  THEN _merge_field_value(MergePolicy(NodeConfig, k), ser[k], d0[k]).ret
                  ELSE IF k \in adapter /\ k \in DOMAIN ser
                  THEN _merge_field_value(MergePolicy(AdapterConfig, k), ser[k], d0[k]).ret
                  ELSE d0[k]

\* an own Update field, an own Append field, an adapter Update field held
\* in _extra and an undeclared key, all incoming at once
C1_Witness ==
    /\ pc = "done" /\ upd.err = NoErr
    /\ {"vars", "tags", "labels", "k3"} \subseteq DOMAIN upd.data_in
    /\ fields["vars"] = Map({<<"y", "b">>})
    /\ "labels" \in DOMAIN extra /\ "k3" \in DOMAIN extra /\ "k4" \in DOMAIN extra
    /\ upd.dct["vars"] = Map({<<"x", "a">>, <<"y", "b">>})
    /\ upd.dct["tags"] = List(<<Str("b"), Str("a")>>)
    /\ upd.dct["labels"] = Map({<<"x", "a">>, <<"y", "b">>})
    /\ upd.dct["k3"] = Str("a")
    /\ upd.dct["k4"] = Str("b")

(***************************************************************************)
(* SpecValidate: one call of SnapshotWrapper.validate on a candidate       *)
(* document.                                                               *)
(***************************************************************************)
ConfigChoice(k) ==
    IF k = "strategy" THEN {Str("check"), Str("timestamp"), Str("other")}
    ELSE IF k = "updated_at" THEN {Str("a"), None}
    ELSE IF k = "check_cols" THEN {Str("all"), Str("a"), List(<<Str("a")>>)}
    ELSE IF k = "enabled" THEN {Bool("True"), Str("a")}
    ELSE {Str("a")}

ConfigKeys == {"strategy", "unique_key", "target_schema", "updated_at",
               "check_cols", "enabled"}

ConfigVals == UNION {ConfigChoice(k) : k \in ConfigKeys}

ConfigDocs == {c \in DocsOver(ConfigKeys, ConfigVals) :
                  \A k \in DOMAIN c : c[k] \in ConfigChoice(k)}

InitValidate ==
    /\ pc = "ready"
    /\ vdoc \in {[has_config |-> FALSE, config |-> EmptyDoc]}
                \cup {[has_config |-> TRUE, config |-> c] : c \in ConfigDocs}
    /\ vres = Idle
    /\ IdleMerge /\ IdleExtract /\ IdleCompare /\ IdleRecord /\ IdleUpdate

ValidateCall ==
    /\ pc = "ready"
    /\ vres' = validate(vdoc)
    /\ pc' = "done"
    /\ UNCHANGED <<vdoc, mergeVars, extractVars, compareVars, recordVars, upd>>

NextValidate == ValidateCall

SpecValidate == InitValidate /\ [][NextValidate]_vars

VConfig == IF vdoc.has_config THEN vdoc.config ELSE EmptyDoc

VStrategy == IF Has(VConfig, "strategy") THEN VConfig["strategy"] ELSE None

TimestampWithoutUpdatedAt ==
    pc = "done" /\ VStrategy = Str("timestamp") /\ ~Has(VConfig, "updated_at")

FirstMissing(c, names) ==
    names[CHOOSE i \in 1..Len(names) :
             ~Has(c, names[i]) /\ \A j \in 1..(i - 1) : Has(c, names[j])]

\* C9 as amended: the schema used is chosen by config.strategy alone: the
\* check schema for "check", the timestamp schema for "timestamp", the
\* wrapper's union schema in every other case; a document with strategy
\* "timestamp" and no updated_at fails with a required-field diagnostic
\* that is never about strategy and that names the first missing one of
\* unique_key, target_schema and updated_at, so it names updated_at when
\* the two identity fields are present.
C9_DispatchByStrategy ==
    pc = "done" =>
        /\ vres.schema = IF VStrategy = Str("check") THEN "check"
                         ELSE IF VStrategy = Str("timestamp") THEN "timestamp"
                         ELSE "wrapper"
        /\ TimestampWithoutUpdatedAt =>
              /\ vres.error # NoError
              /\ vres.error.validator = "required"
              /\ vres.error.about # "strategy"
              /\ ~InSeq("strategy", vres.error.path)
              /\ vres.error.about =
                    FirstMissing(VConfig, <<"unique_key", "target_schema", "updated_at">>)

\* strategy "timestamp", the identity fields present, updated_at missing
\* and a second violation deeper in the document
C9_Witness ==
    /\ TimestampWithoutUpdatedAt
    /\ Has(VConfig, "unique_key") /\ Has(VConfig, "target_schema")
    /\ Has(VConfig, "enabled") /\ VConfig["enabled"] = Str("a")
    /\ vres.schema = "timestamp"
    /\ vres.error.about = "updated_at"

\* C9 as stated: a document with strategy "timestamp" and no updated_at
\* fails with a diagnostic about updated_at and never one about strategy.
C9_DiagnosticNamesUpdatedAt ==
    TimestampWithoutUpdatedAt =>
        /\ vres.error # NoError
        /\ vres.error.about = "updated_at"

Demoted(e) == InSeq("strategy", e.path) /\ e.validator \in {"enum", "not"}

IsUnion(e) == e.validator \in {"anyOf", "oneOf"}

\* a is ranked at least as high as b when deeper paths win and a union
\* violation wins at equal depth, the strategy enum/negation ones last
NestedAtLeast(a, b) ==
    IF Demoted(a) THEN Demoted(b)
    ELSE \/ Demoted(b)
         \/ Len(a.path) > Len(b.path)
         \/ Len(a.path) = Len(b.path) /\ (IsUnion(a) \/ ~IsUnion(b))

\* a is ranked at least as high as b when shallower paths win and a plain
\* violation wins at equal depth
TopAtLeast(a, b) ==
    IF Demoted(b) THEN Demoted(a)
    ELSE \/ Demoted(a)
         \/ Len(a.path) < Len(b.path)
         \/ Len(a.path) = Len(b.path) /\ (~IsUnion(a) \/ IsUnion(b))

\* the ranking of the claim: strategy enum/negation last, deeper paths
\* first, a plain violation before a union one at equal depth
ClaimAtLeast(a, b) ==
    IF Demoted(a) THEN Demoted(b)
    ELSE \/ Demoted(b)
         \/ Len(a.path) > Len(b.path)
         \/ Len(a.path) = Len(b.path) /\ (~IsUnion(a) \/ IsUnion(b))

Candidates(i) == IF i = 1 THEN vres.errors ELSE vres.chain[i - 1].context

\* C10 as amended: among the violations of a failed union's alternatives a
\* strategy enum/negation violation is demoted below every other one, so
\* it is reported only when there is no other; the others are ranked with
\* deeper paths winning and, at equal depth, an anyOf/oneOf violation
\* outranking a plain one.  Among the top-level violations of the schema
\* used the ranking is the reverse: shallower paths win and at equal depth
\* a plain violation outranks an anyOf/oneOf one.
C10_TieBreak ==
    (pc = "done" /\ vres.errors # <<>>) =>
        /\ vres.error = vres.chain[Len(vres.chain)]
        /\ vres.error.context = <<>>
        /\ \A i \in 1..Len(vres.chain) :
              /\ InSeq(vres.chain[i], Candidates(i))
              /\ \A j \in 1..Len(Candidates(i)) :
                    IF i = 1 THEN TopAtLeast(vres.chain[i], Candidates(i)[j])
                    ELSE NestedAtLeast(vres.chain[i], Candidates(i)[j])
        /\ Demoted(vres.error) =>
              \A j \in 1..Len(Candidates(Len(vres.chain))) :
                  Demoted(Candidates(Len(vres.chain))[j])

\* the union failed with a plain violation and a union violation at equal
\* depth and strategy violations among its alternatives' violations: the
\* union violation was chosen, then a violation of its own alternatives
C10_Witness ==
    /\ pc = "done" /\ vres.schema = "wrapper"
    /\ Len(vres.chain) = 3
    /\ \E j \in 1..Len(Candidates(2)) : Demoted(Candidates(2)[j])
    /\ \E j \in 1..Len(Candidates(2)) :
          ~IsUnion(Candidates(2)[j]) /\ Len(Candidates(2)[j].path) = 1
          /\ ~Demoted(Candidates(2)[j])
    /\ IsUnion(vres.chain[2])

\* C10 as stated: wherever one violation is chosen among several, the
\* chosen one ranks at least as high as every other under the claim's
\* ranking.
C10_ClaimedRanking ==
    (pc = "done" /\ vres.errors # <<>>) =>
        \A i \in 1..Len(vres.chain) :
            \A j \in 1..Len(Candidates(i)) :
                ClaimAtLeast(vres.chain[i], Candidates(i)[j])

====
